---- MODULE Spec2Model ----
(***************************************************************************)
(* The two WLASL import scripts, scripts/import_wlasl.py and               *)
(* scripts/import_wlasl_videos.py, as one state machine.  One behaviour is *)
(* one run of one of the scripts: `script` says which.  Python strings are *)
(* sequences of one-character strings, a dict is the sequence of its       *)
(* (key, value) pairs in insertion order, a file is named by its id and    *)
(* its content is that id.                                                 *)
(***************************************************************************)
EXTENDS Integers, Sequences, FiniteSets, TLC

VARIABLES
    script,            \* which script runs: "import_wlasl" or "import_wlasl_videos"
    source,            \* what the run finds at its input path
    dataset,           \* wlasl_data (the JSON), or what videos_path.iterdir() yields for
                       \* the directory find_wlasl_structure picked
    files,             \* the source video files that exist right now
    TARGET_GLOSSES,    \* the target vocabulary, in the order it is written
    pc,                \* position in main()
    exitCode,          \* process exit status, -1 while running
    available_videos,  \* import_wlasl.py: stems found by the glob
    gloss_to_video,    \* the index: gloss_to_video / available
    i,                 \* index of the next target of the copy loop
    copied,
    copied_list,
    missing,
    dest,              \* AvatarAssets: set of [name, content]
    manifest,          \* <<>> until manifest.json is written, then <<its content>>
    listing,           \* <<>> until the glosses listing is written, then <<its lines>>
    vanished,          \* number of source files removed since the run began
    error,             \* what ended the run early: "" or the step that failed
    resolved           \* per target handled so far: what it resolved to (video_id / src)

vars == <<script, source, dataset, files, TARGET_GLOSSES, pc, exitCode,
          available_videos, gloss_to_video, i, copied, copied_list, missing,
          dest, manifest, listing, vanished, error, resolved>>

----------------------------------------------------------------------------
(* Bounds of the model *)

MaxEntries == 3     \* entries in the JSON / in the scanned directory
MaxVanish == 1      \* source files that may vanish during one run

----------------------------------------------------------------------------
(* Strings *)

\* The characters in use, in code-point order.
Alphabet == <<" ", "1", "2", "H", "_", "a", "e", "h", "k", "l", "n", "o", "t", "u", "y">>

Ord(c) == CHOOSE n \in 1..Len(Alphabet) : Alphabet[n] = c

s_hello     == <<"h","e","l","l","o">>
s_Hello     == <<"H","e","l","l","o">>
s_hell      == <<"h","e","l","l">>
s_thank_you == <<"t","h","a","n","k"," ","y","o","u">>
s_thankyou  == <<"t","h","a","n","k","y","o","u">>
u_thank_you == <<"t","h","a","n","k","_","y","o","u">>
u_hello_1   == <<"h","e","l","l","o","_","1">>
u_hello_2   == <<"h","e","l","l","o","_","2">>

\* str.lower()
LowerChar(c) == IF c = "H" THEN "h" ELSE c

RECURSIVE Lower(_)
Lower(s) == IF s = <<>> THEN <<>> ELSE <<LowerChar(Head(s))>> \o Lower(Tail(s))

\* str.replace(a, b) for single characters
RECURSIVE Replace(_, _, _)
Replace(s, a, b) ==
    IF s = <<>> THEN <<>>
    ELSE <<IF Head(s) = a THEN b ELSE Head(s)>> \o Replace(Tail(s), a, b)

\* str.replace(" ", "")
StripSpaces(s) == SelectSeq(s, LAMBDA c : c # " ")

\* Python's `needle in hay` on strings
Contains(needle, hay) ==
    \E k \in 0..(Len(hay) - Len(needle)) : SubSeq(hay, k + 1, k + Len(needle)) = needle

\* str.rsplit("_", 1)[0]
RSplitHead(s) ==
    IF \E k \in 1..Len(s) : s[k] = "_"
    THEN LET last == CHOOSE k \in 1..Len(s) :
                        s[k] = "_" /\ \A m \in (k + 1)..Len(s) : s[m] # "_"
         IN SubSeq(s, 1, last - 1)
    ELSE s

\* string comparison a < b, as sorted() compares
RECURSIVE StrLess(_, _)
StrLess(a, b) ==
    IF b = <<>> THEN FALSE
    ELSE IF a = <<>> THEN TRUE
    ELSE IF Head(a) = Head(b) THEN StrLess(Tail(a), Tail(b))
    ELSE Ord(Head(a)) < Ord(Head(b))

\* insertion of x into the sorted sequence s
RECURSIVE Insert(_, _)
Insert(x, s) ==
    IF s = <<>> THEN <<x>>
    ELSE IF StrLess(Head(s), x) THEN <<Head(s)>> \o Insert(x, Tail(s))
    ELSE <<x>> \o s

\* sorted(list of strings)
RECURSIVE Sorted(_)
Sorted(s) == IF s = <<>> THEN <<>> ELSE Insert(Head(s), Sorted(Tail(s)))

Range(s) == {s[k] : k \in 1..Len(s)}

----------------------------------------------------------------------------
(* dict, in insertion order *)

None == "None"

Keys(d) == [k \in 1..Len(d) |-> d[k].key]

HasKey(d, key) == \E k \in 1..Len(d) : d[k].key = key

\* d[key], or None: dict.get(key)
Get(d, key) ==
    IF HasKey(d, key)
    THEN d[CHOOSE k \in 1..Len(d) : d[k].key = key].val
    ELSE None

\* d[key] = val: a present key keeps its place and takes the new value
Put(d, key, val) ==
    IF HasKey(d, key)
    THEN [k \in 1..Len(d) |-> IF d[k].key = key THEN [key |-> key, val |-> val] ELSE d[k]]
    ELSE Append(d, [key |-> key, val |-> val])

\* `for key, val in d.items(): if <key matches>: ... break`: the value of the first
\* pair, in iteration order, whose key is among the matching ones, or None
FirstMatch(d, matching) ==
    IF \E k \in 1..Len(d) : d[k].key \in matching
    THEN d[CHOOSE k \in 1..Len(d) :
              d[k].key \in matching /\ \A m \in 1..(k - 1) : d[m].key \notin matching].val
    ELSE None

----------------------------------------------------------------------------
(* import_wlasl.py: the index *)

\* the first video_id of `instances` that is among the available videos, or None
RECURSIVE FirstAvailable(_, _)
FirstAvailable(instances, avail) ==
    IF instances = <<>> THEN None
    ELSE IF Head(instances) \in avail THEN Head(instances)
    ELSE FirstAvailable(Tail(instances), avail)

\* one iteration of `for entry in wlasl_data`
IndexEntry(d, entry, avail) ==
    LET gloss == Lower(entry.gloss)
        video_id == FirstAvailable(entry.instances, avail)
    IN IF video_id # None THEN Put(d, gloss, video_id) ELSE d

RECURSIVE BuildGlossToVideo(_, _, _)
BuildGlossToVideo(d, data, avail) ==
    IF data = <<>> THEN d
    ELSE BuildGlossToVideo(IndexEntry(d, Head(data), avail), Tail(data), avail)

----------------------------------------------------------------------------
(* import_wlasl_videos.py: the index *)

VideoSuffixes == {".mp4", ".mov", ".m4v"}

\* item.suffix.lower()
SuffixLower(x) == IF x = ".MOV" THEN ".mov" ELSE x

\* the gloss of a directory item
DirGloss(name) == Replace(Lower(name), "_", " ")

\* the gloss of a flat file item
FlatGloss(stem) == Replace(Lower(RSplitHead(stem)), "_", " ")

\* one iteration of `for item in videos_path.iterdir()`
ScanItem(d, item) ==
    IF item.kind = "dir"
    THEN LET videos == item.mp4 \o item.mov
         IN IF videos # <<>> THEN Put(d, DirGloss(item.name), videos[1]) ELSE d
    ELSE IF SuffixLower(item.suffix) \in VideoSuffixes
    THEN IF ~HasKey(d, FlatGloss(item.name)) THEN Put(d, FlatGloss(item.name), item.path) ELSE d
    ELSE d

RECURSIVE get_video_files(_, _)
get_video_files(d, items) ==
    IF items = <<>> THEN d ELSE get_video_files(ScanItem(d, Head(items)), Tail(items))

----------------------------------------------------------------------------
(* Resolution of one target *)

\* import_wlasl.py: target_lower
TargetLowerA(target) == StripSpaces(Lower(target))

\* import_wlasl_videos.py: gloss_lower
TargetLowerB(gloss) == Lower(gloss)

\* python `a in b or b in a`
Partial(a, b) == Contains(a, b) \/ Contains(b, a)

\* ResolveA with the partial match tried before the exact one
ResolveA_PartialFirst(target, d) ==
    LET target_lower == TargetLowerA(target)
        partial == FirstMatch(d, {g \in Range(Keys(d)) : Partial(target_lower, g)})
    IN IF partial # None THEN partial ELSE Get(d, target_lower)

\* import_wlasl.py lines 98-115: the video_id of the target, or None
ResolveA(target, d) ==
    LET target_lower == TargetLowerA(target)
        exact == Get(d, target_lower)
        nospace == IF exact # None THEN exact
                   ELSE FirstMatch(d, {g \in Range(Keys(d)) : target_lower = StripSpaces(g)})
    IN IF nospace # None THEN nospace
       ELSE FirstMatch(d, {g \in Range(Keys(d)) : Partial(target_lower, g)})

\* import_wlasl_videos.py lines 111-126: the source of the target, or None
ResolveB(gloss, d) ==
    LET gloss_lower == TargetLowerB(gloss)
    IN IF HasKey(d, gloss_lower) THEN Get(d, gloss_lower)
       ELSE FirstMatch(d, {key \in Range(Keys(d)) : Partial(gloss_lower, key)})

----------------------------------------------------------------------------
(* The copy loop *)

\* dst_name / out_name
DstName(target) == Append(Replace(Lower(target), " ", "_"), ".mp4")

\* copy2 that keeps a file already at the destination and writes a numbered one beside it
copy2_NoClobber(folder, src, name) ==
    IF \E f \in folder : f.name = name
    THEN folder \cup {[name |-> Append(name, ".1"), content |-> src]}
    ELSE folder \cup {[name |-> name, content |-> src]}

\* shutil.copy2(src, dst): the destination takes the content of src
copy2(folder, src, name) ==
    {f \in folder : f.name # name} \cup {[name |-> name, content |-> src]}

\* what one iteration found: the target, its source, and whether the source file exists
Resolution(target, src, fs) == [target |-> target, src |-> src, present |-> src \in fs]

\* one iteration of `for target in sorted(TARGET_GLOSSES)`, on the loop's state
CopyTargetA(st, target, d, fs) ==
    LET video_id == ResolveA(target, d)
        seen == [st EXCEPT !.resolved = Append(@, Resolution(target, video_id, fs))]
    IN IF video_id = None
       THEN [seen EXCEPT !.missing = Append(@, target)]
       ELSE IF video_id \in fs
       THEN [seen EXCEPT !.dest = copy2(@, video_id, DstName(target)),
                         !.copied = @ + 1,
                         !.copied_list = Append(@, target)]
       ELSE [seen EXCEPT !.missing = Append(@, target)]

\* CopyTargetB that does not record a gloss it cannot resolve
CopyTargetB_SkipsSilently(st, gloss, d, fs) ==
    LET src == ResolveB(gloss, d)
        seen == [st EXCEPT !.resolved = Append(@, Resolution(gloss, src, fs))]
    IN IF src = None
       THEN seen
       ELSE IF src \in fs
       THEN [seen EXCEPT !.dest = copy2(@, src, DstName(gloss)),
                         !.copied = @ + 1]
       ELSE [seen EXCEPT !.raised = TRUE]

\* one iteration of `for gloss in TARGET_GLOSSES`; copy2 raises when src is gone
CopyTargetB(st, gloss, d, fs) ==
    LET src == ResolveB(gloss, d)
        seen == [st EXCEPT !.resolved = Append(@, Resolution(gloss, src, fs))]
    IN IF src = None
       THEN [seen EXCEPT !.missing = Append(@, gloss)]
       ELSE IF src \in fs
       THEN [seen EXCEPT !.dest = copy2(@, src, DstName(gloss)),
                         !.copied = @ + 1]
       ELSE [seen EXCEPT !.raised = TRUE]

CopyTarget(sc, st, target, d, fs) ==
    IF sc = "import_wlasl" THEN CopyTargetA(st, target, d, fs)
    ELSE CopyTargetB(st, target, d, fs)

\* the whole loop from state st, stopping where an exception is raised
RECURSIVE CopyLoop(_, _, _, _, _)
CopyLoop(sc, st, targets, d, fs) ==
    IF targets = <<>> \/ st.raised THEN st
    ELSE CopyLoop(sc, CopyTarget(sc, st, Head(targets), d, fs), Tail(targets), d, fs)

\* the sequence the copy loop iterates over
Targets(sc, glosses) == IF sc = "import_wlasl" THEN Sorted(glosses) ELSE glosses

----------------------------------------------------------------------------
(* The inputs of a run *)

\* sequences over S of length at most n
SeqUpTo(S, n) == UNION {[1..k -> S] : k \in 0..n}

NoDuplicates(s) == \A a, b \in 1..Len(s) : a # b => s[a] # s[b]

\* glosses of both scripts' TARGET_GLOSSES
TargetPool == {s_hello, s_thank_you}

\* entries of WLASL_v0.3.json; "v0" is a video_id with no file in videos/
EntryPool ==
    { [gloss |-> s_hello,     instances |-> <<"v1">>],
      [gloss |-> s_Hello,     instances |-> <<"v0", "v2">>],
      [gloss |-> s_hell,      instances |-> <<"v2">>],
      [gloss |-> s_thankyou,  instances |-> <<"v2">>],
      [gloss |-> s_thank_you, instances |-> <<"v1">>] }

Dir(name, mp4, mov) ==
    [kind |-> "dir", name |-> name, suffix |-> "", mp4 |-> mp4, mov |-> mov, path |-> None]

File(stem, suffix, path) ==
    [kind |-> "file", name |-> stem, suffix |-> suffix, mp4 |-> <<>>, mov |-> <<>>, path |-> path]

\* items of the scanned directory
ItemPool ==
    { Dir(s_hello, <<"f1">>, <<>>),
      Dir(s_Hello, <<>>, <<"f2">>),
      Dir(u_thank_you, <<"f3">>, <<>>),
      Dir(s_thankyou, <<"f4">>, <<>>),
      Dir(s_hell, <<>>, <<>>),
      File(u_hello_1, ".mp4", "f5"),
      File(u_hello_2, ".MOV", "f6"),
      File(u_thank_you, ".mp4", "f7") }

\* the video files under the items of a listing
ItemFiles(items) ==
    UNION { IF items[k].kind = "dir" THEN Range(items[k].mp4 \o items[k].mov)
            ELSE {items[k].path} : k \in 1..Len(items) }

TargetLists == {t \in SeqUpTo(TargetPool, Cardinality(TargetPool)) : NoDuplicates(t)}

InitRun ==
    /\ pc = "start"
    /\ exitCode = -1
    /\ available_videos = {}
    /\ gloss_to_video = <<>>
    /\ i = 1
    /\ copied = 0
    /\ copied_list = <<>>
    /\ missing = <<>>
    /\ dest = {}
    /\ manifest = <<>>
    /\ listing = <<>>
    /\ vanished = 0
    /\ error = ""
    /\ resolved = <<>>

InitA ==
    /\ script = "import_wlasl"
    /\ source \in {"ok", "no_videos", "no_json", "no_path"}
    /\ dataset \in IF source \in {"ok", "no_videos"} THEN SeqUpTo(EntryPool, MaxEntries) ELSE {<<>>}
    /\ files \in IF source = "ok" THEN {{"v1", "v2"}, {"v2"}} ELSE {{}}

InitB ==
    /\ script = "import_wlasl_videos"
    /\ source \in {"ok", "no_arg", "no_path"}
    /\ dataset \in IF source = "ok"
                   THEN {s \in SeqUpTo(ItemPool, MaxEntries) : NoDuplicates(s)}
                   ELSE {<<>>}
    /\ files = ItemFiles(dataset)

Init ==
    /\ InitA \/ InitB
    /\ TARGET_GLOSSES \in TargetLists
    /\ InitRun

----------------------------------------------------------------------------
(* The steps of main() *)

inputs == <<script, source, dataset, TARGET_GLOSSES>>

\* an uncaught exception or sys.exit(1)
Fail(what) ==
    /\ pc' = "failed"
    /\ exitCode' = 1
    /\ error' = what

LoopState == [copied |-> copied, copied_list |-> copied_list, missing |-> missing,
              dest |-> dest, resolved |-> resolved, raised |-> FALSE]

LoopTargets == Targets(script, TARGET_GLOSSES)

\* import_wlasl.py: open(json_path) and json.load
A_LoadJson ==
    /\ script = "import_wlasl" /\ pc = "start"
    /\ IF source \in {"no_json", "no_path"}
       THEN Fail("json")
       ELSE pc' = "scan" /\ UNCHANGED <<exitCode, error>>
    /\ UNCHANGED <<inputs, files, available_videos, gloss_to_video, i, copied,
                   copied_list, missing, dest, manifest, listing, vanished, resolved>>

\* import_wlasl.py: videos_path.glob("*.mp4")
A_ScanVideos ==
    /\ script = "import_wlasl" /\ pc = "scan"
    /\ available_videos' = files
    /\ pc' = "index"
    /\ UNCHANGED <<inputs, files, exitCode, gloss_to_video, i, copied, copied_list,
                   missing, dest, manifest, listing, vanished, error, resolved>>

\* import_wlasl.py: the gloss -> video_id mapping
A_BuildIndex ==
    /\ script = "import_wlasl" /\ pc = "index"
    /\ gloss_to_video' = BuildGlossToVideo(<<>>, dataset, available_videos)
    /\ pc' = "copy"
    /\ UNCHANGED <<inputs, files, exitCode, available_videos, i, copied, copied_list,
                   missing, dest, manifest, listing, vanished, error, resolved>>

\* import_wlasl_videos.py: the argument and path checks
B_CheckArgs ==
    /\ script = "import_wlasl_videos" /\ pc = "start"
    /\ IF source = "no_arg" THEN Fail("usage")
       ELSE IF source = "no_path" THEN Fail("path")
       ELSE pc' = "scan" /\ UNCHANGED <<exitCode, error>>
    /\ UNCHANGED <<inputs, files, available_videos, gloss_to_video, i, copied,
                   copied_list, missing, dest, manifest, listing, vanished, resolved>>

\* import_wlasl_videos.py: available = get_video_files(videos_path)
B_ScanVideos ==
    /\ script = "import_wlasl_videos" /\ pc = "scan"
    /\ gloss_to_video' = get_video_files(<<>>, dataset)
    /\ pc' = "copy"
    /\ UNCHANGED <<inputs, files, exitCode, available_videos, i, copied, copied_list,
                   missing, dest, manifest, listing, vanished, error, resolved>>

\* one iteration of the copy loop of either script
CopyStep ==
    /\ pc = "copy" /\ i <= Len(LoopTargets)
    /\ LET st == CopyTarget(script, LoopState, LoopTargets[i], gloss_to_video, files)
       IN /\ copied' = st.copied
          /\ copied_list' = st.copied_list
          /\ missing' = st.missing
          /\ dest' = st.dest
          /\ resolved' = st.resolved
          /\ IF st.raised
             THEN Fail("copy") /\ i' = i
             ELSE i' = i + 1 /\ UNCHANGED <<pc, exitCode, error>>
    /\ UNCHANGED <<inputs, files, available_videos, gloss_to_video, manifest, listing,
                   vanished>>

\* import_wlasl.py: manifest.json; open() or json.dump may raise
A_WriteManifest ==
    /\ script = "import_wlasl" /\ pc = "copy" /\ i > Len(LoopTargets)
    /\ \E ok \in BOOLEAN :
          IF ok
          THEN /\ manifest' = <<[source |-> "WLASL v0.3", count |-> copied,
                                 glosses |-> Sorted(copied_list),
                                 missing |-> Sorted(missing)]>>
               /\ pc' = "listing"
               /\ UNCHANGED <<exitCode, error>>
          ELSE Fail("manifest") /\ UNCHANGED manifest
    /\ UNCHANGED <<inputs, files, available_videos, gloss_to_video, i, copied,
                   copied_list, missing, dest, listing, vanished, resolved>>

\* the listing of all glosses of the index; open() or write may raise
WriteListing ==
    /\ \/ script = "import_wlasl" /\ pc = "listing"
       \/ script = "import_wlasl_videos" /\ pc = "copy" /\ i > Len(LoopTargets)
    /\ \E ok \in BOOLEAN :
          IF ok
          THEN /\ listing' = <<Sorted(Keys(gloss_to_video))>>
               /\ pc' = "done"
               /\ exitCode' = 0
               /\ UNCHANGED error
          ELSE Fail("listing") /\ UNCHANGED listing
    /\ UNCHANGED <<inputs, files, available_videos, gloss_to_video, i, copied,
                   copied_list, missing, dest, manifest, vanished, resolved>>

\* the environment: a source video file is removed while the copy loop runs
Vanish ==
    /\ pc = "copy" /\ i <= Len(LoopTargets)
    /\ vanished < MaxVanish
    /\ \E f \in files : files' = files \ {f}
    /\ vanished' = vanished + 1
    /\ UNCHANGED <<inputs, pc, exitCode, available_videos, gloss_to_video, i, copied,
                   copied_list, missing, dest, manifest, listing, error, resolved>>

Next ==
    \/ A_LoadJson
    \/ A_ScanVideos
    \/ A_BuildIndex
    \/ B_CheckArgs
    \/ B_ScanVideos
    \/ CopyStep
    \/ A_WriteManifest
    \/ WriteListing
    \/ Vanish

Spec == Init /\ [][Next]_vars

Terminated == pc \in {"done", "failed"}

----------------------------------------------------------------------------
(* Notions the properties below are stated in *)

\* the targets the copy loop has handled so far
Handled == Range(resolved)

\* the copy loop ran to its end without raising
LoopDone == pc \in {"copy", "listing", "done", "failed"} /\ i > Len(LoopTargets)

\* the index is built
IndexBuilt == pc \in {"copy", "listing", "done"} \/ (pc = "failed" /\ error \in {"copy", "manifest", "listing"})

\* the target as the running script normalizes it before the lookup
TargetLower(sc, target) ==
    IF sc = "import_wlasl" THEN TargetLowerA(target) ELSE TargetLowerB(target)

\* the keys of d other than key that contain key or are contained in it
PartialKeys(d, key) == {g \in Range(Keys(d)) : g # key /\ Partial(key, g)}

\* the keys of d equal to the target once spaces are stripped from both
SpaceKeys(d, target) ==
    {g \in Range(Keys(d)) : StripSpaces(g) = StripSpaces(Lower(target))}

----------------------------------------------------------------------------
(* C1 *)

C1_WitnessVideos ==
    \E r \in Handled :
        LET n == TargetLower(script, r.target)
        IN /\ script = "import_wlasl_videos"
           /\ HasKey(gloss_to_video, n)
           /\ \E g \in PartialKeys(gloss_to_video, n) :
                 /\ Get(gloss_to_video, g) # Get(gloss_to_video, n)
                 /\ gloss_to_video[1].key = g
           /\ r.src = Get(gloss_to_video, n)

----------------------------------------------------------------------------
(* C2 *)

\* C2: a handled target that is not itself a key of the index, but equals a key once
\* spaces are stripped from both, resolved to the video of such a key (so it is not
\* missing, and not resolved to a key that only substring-matches).
C2_SpaceInsensitiveTier ==
    \A r \in Handled :
        (~HasKey(gloss_to_video, Lower(r.target)) /\ SpaceKeys(gloss_to_video, r.target) # {})
            => r.src \in {Get(gloss_to_video, g) : g \in SpaceKeys(gloss_to_video, r.target)}

\* C2 in import_wlasl.py alone
C2_InImportWlasl == script = "import_wlasl" => C2_SpaceInsensitiveTier

----------------------------------------------------------------------------
(* C3 *)

\* C3: a handled target whose resolved source file was gone when its copy came is in
\* the missing list, and the run did not end in an error of the copy step.
C3_VanishedSourceIsMissing ==
    \A r \in Handled :
        (r.src # None /\ ~r.present)
            => (r.target \in Range(missing) /\ ~(pc = "failed" /\ error = "copy"))

\* C3 in import_wlasl.py alone
C3_InImportWlasl == script = "import_wlasl" => C3_VanishedSourceIsMissing

----------------------------------------------------------------------------
(* C4 *)

\* the video an entry of the scan gives to the index, or None
EntryVideo(sc, entry, avail) ==
    IF sc = "import_wlasl" THEN FirstAvailable(entry.instances, avail)
    ELSE IF entry.kind = "dir"
    THEN (IF entry.mp4 \o entry.mov # <<>> THEN (entry.mp4 \o entry.mov)[1] ELSE None)
    ELSE IF SuffixLower(entry.suffix) \in VideoSuffixes THEN entry.path
    ELSE None

\* the gloss an entry of the scan derives
EntryGloss(sc, entry) ==
    IF sc = "import_wlasl" THEN Lower(entry.gloss)
    ELSE IF entry.kind = "dir" THEN DirGloss(entry.name)
    ELSE FlatGloss(entry.name)

\* the video of the first entry, in scan order, that derives gloss g and has a video
FirstSeen(sc, data, avail, g) ==
    LET hits == {k \in 1..Len(data) :
                    EntryGloss(sc, data[k]) = g /\ EntryVideo(sc, data[k], avail) # None}
    IN IF hits = {} THEN None
       ELSE EntryVideo(sc, data[CHOOSE k \in hits : \A m \in hits : k <= m], avail)

\* C4: once the index is built, every gloss of it maps to the video of the first
\* scanned entry that derives that gloss.
C4_FirstSeenWins ==
    IndexBuilt =>
        \A k \in 1..Len(gloss_to_video) :
            gloss_to_video[k].val =
                FirstSeen(script, dataset, available_videos, gloss_to_video[k].key)

\* C4 for listings of flat files only
C4_FlatFilesOnly ==
    (script = "import_wlasl_videos" /\ \A k \in 1..Len(dataset) : dataset[k].kind = "file")
        => C4_FirstSeenWins

----------------------------------------------------------------------------
(* C5 *)

\* C5: when the run has ended after its report step, the manifest is written, its count
\* is the number of copies and the length of its gloss list, and its gloss list and
\* missing list are disjoint and together hold exactly the targets.
C5_ManifestCollectsAll ==
    pc = "done" =>
        /\ Len(manifest) = 1
        /\ manifest[1].count = copied
        /\ manifest[1].count = Len(manifest[1].glosses)
        /\ Range(manifest[1].glosses) \cap Range(manifest[1].missing) = {}
        /\ Range(manifest[1].glosses) \cup Range(manifest[1].missing) = Range(TARGET_GLOSSES)
        /\ Len(manifest[1].glosses) + Len(manifest[1].missing) = Len(TARGET_GLOSSES)

\* C5 in import_wlasl.py alone
C5_InImportWlasl == script = "import_wlasl" => C5_ManifestCollectsAll

----------------------------------------------------------------------------
(* C6 *)

\* the input path is not given or not there, or the dataset description cannot be read
FatalInput == source \in {"no_arg", "no_path", "no_json"}

\* C6: a run that has ended exits non-zero exactly when a required input path is
\* missing or the dataset description is unreadable.
C6_ExitStatus == Terminated => (exitCode # 0 <=> FatalInput)

----------------------------------------------------------------------------
(* C7 *)

\* C7: a run that failed to write the manifest or the listing still ends with the
\* exit status of a run whose writes succeeded, which is zero.
C7_ReportWriteIsBestEffort ==
    (pc = "failed" /\ error \in {"manifest", "listing"}) => exitCode = 0

----------------------------------------------------------------------------
(* C8 *)

\* the state a second run of the copy loop starts from: fresh counters, the folder as
\* the first run left it
SecondRun == [copied |-> 0, copied_list |-> <<>>, missing |-> <<>>, dest |-> dest,
              resolved |-> <<>>, raised |-> FALSE]

\* C8: once the copy loop has run to its end with no source file removed meanwhile,
\* running it again on the same targets, index and source files leaves the destination
\* folder with the same file names and the same content per file.
C8_CopyIdempotent ==
    (LoopDone /\ vanished = 0)
        => CopyLoop(script, SecondRun, LoopTargets, gloss_to_video, files).dest = dest

\* a finished copy loop that copied two files
C8_Witness == LoopDone /\ vanished = 0 /\ copied = 2 /\ Cardinality(dest) = 2

----------------------------------------------------------------------------
(* C9 *)

\* C9: when the copy loop has run to its end, an empty target list has given no copy
\* and no missing gloss, and an empty index has given no copy and every target missing.
C9_Boundaries ==
    LoopDone =>
        /\ TARGET_GLOSSES = <<>> => (copied = 0 /\ dest = {} /\ missing = <<>>)
        /\ gloss_to_video = <<>> => (copied = 0 /\ dest = {} /\ missing = LoopTargets)

\* a finished loop over two targets and an empty index
C9_Witness ==
    /\ LoopDone /\ gloss_to_video = <<>> /\ source = "ok"
    /\ Len(TARGET_GLOSSES) = 2 /\ Len(missing) = 2

\* a finished loop over no target and an index that is not empty
C9_WitnessNoTarget == LoopDone /\ TARGET_GLOSSES = <<>> /\ gloss_to_video # <<>>

----------------------------------------------------------------------------
(* C10 *)

IsIndex(seg) == seg # <<>> /\ \A k \in 1..Len(seg) : seg[k] \in {"1", "2"}

\* the stem without a trailing _<index>, other stems whole
StripIndexSuffix(stem) ==
    IF RSplitHead(stem) # stem /\ IsIndex(SubSeq(stem, Len(RSplitHead(stem)) + 2, Len(stem)))
    THEN RSplitHead(stem)
    ELSE stem

\* C10: the gloss a flat video file derives is its stem with only a trailing _<index>
\* stripped, underscores as spaces, lower-cased; the built index holds that gloss.
C10_FlatGlossStripsOnlyIndex ==
    (script = "import_wlasl_videos" /\ IndexBuilt) =>
        \A k \in 1..Len(dataset) :
            (dataset[k].kind = "file" /\ SuffixLower(dataset[k].suffix) \in VideoSuffixes)
                => /\ FlatGloss(dataset[k].name)
                        = Replace(Lower(StripIndexSuffix(dataset[k].name)), "_", " ")
                   /\ HasKey(gloss_to_video,
                             Replace(Lower(StripIndexSuffix(dataset[k].name)), "_", " "))

\* C10 for stems that end in _<index>
C10_IndexedStems ==
    (script = "import_wlasl_videos" /\ IndexBuilt) =>
        \A k \in 1..Len(dataset) :
            (/\ dataset[k].kind = "file"
             /\ SuffixLower(dataset[k].suffix) \in VideoSuffixes
             /\ StripIndexSuffix(dataset[k].name) # dataset[k].name)
                => HasKey(gloss_to_video,
                          Replace(Lower(StripIndexSuffix(dataset[k].name)), "_", " "))

====
